---- MODULE Spec2Model ----
(***************************************************************************)
(* A model of the device-control core of the mibox_socket repository:      *)
(*   custom_components/mipower      - MiPowerSwitch, its retry helper, the *)
(*                                    wake and sleep sequences, the two    *)
(*                                    Bluetooth backends it drives, the    *)
(*                                    polling coordinator and the proxy    *)
(*                                    entity its is_on reads;              *)
(*   custom_components/mibox_socket - MiBoxSocketSwitch and its blocking   *)
(*                                    bluetoothctl session.                *)
(* The two components share no state, so a behaviour follows the entity of *)
(* one of them (variable component).  A step of a coroutine runs from one  *)
(* await that suspends (a backend call, an asyncio.sleep, an executor job) *)
(* to the next, as the event loop runs it.                                 *)
(***************************************************************************)
EXTENDS Naturals, Integers, Sequences, FiniteSets, TLC

(***************************************************************************)
(* Bounds of the model.                                                    *)
(***************************************************************************)
\* number of command coroutines (async_turn_on / async_turn_off) of one switch
\* that may be in flight at once
NumTasks == 2

Tasks == 1..NumTasks

(***************************************************************************)
(* Program constants.                                                      *)
(***************************************************************************)
MIN_RETRY_COUNT == 0
MAX_RETRY_COUNT == 3
DEFAULT_RETRY_COUNT == 1
\* the default of the retries parameter of BleakClient.connect
BLEAK_CONNECT_RETRIES == 3

SLEEP_CMD_DISCONNECT == "disconnect"
SLEEP_CMD_POWER_OFF == "power_off"

\* the exception classes of bluetoothctl.py, and NameError for an exception
\* that is no BluetoothCtlError (the one _run raises on a timeout, see Outcomes)
BluetoothCtlError == "BluetoothCtlError"
BluetoothCtlTimeoutError == "BluetoothCtlTimeoutError"
BluetoothCtlPairingRequestedError == "BluetoothCtlPairingRequestedError"
BluetoothCtlNotFoundError == "BluetoothCtlNotFoundError"
BluetoothCtlEnvError == "BluetoothCtlEnvError"
BluetoothCtlParseError == "BluetoothCtlParseError"
NameError == "NameError"

BtErrors ==
    { BluetoothCtlError, BluetoothCtlTimeoutError, BluetoothCtlPairingRequestedError,
      BluetoothCtlNotFoundError, BluetoothCtlEnvError, BluetoothCtlParseError }

Exceptions == BtErrors \cup { NameError }

\* isinstance(exc, cls) for the classes the except clauses name
IsInstance(exc, cls) ==
    CASE cls = "Exception" -> exc \in Exceptions
      [] cls = BluetoothCtlError -> exc \in BtErrors
      [] OTHER -> exc = cls

\* what a backend call returns: "ok" for connect / disconnect / power_off,
\* the connected field (True, False, None) for info
InfoValues == { "True", "False", "None" }
Values == { "ok" } \cup InfoValues

Backends == { "bleak", "cli" }

\* BtInfo(): the connected, paired and trusted fields of a fresh BtInfo
BtInfo == [connected |-> "None", paired |-> "None", trusted |-> "None"]

\* state strings of a media_player entity; "missing": hass.states.get is None
MediaStates == { "on", "playing", "idle", "active", "off", "missing" }
Ops == { "info", "connect", "disconnect", "power_off" }

VARIABLES
    component,       \* which component's entity the behaviour follows
    callers,         \* how many commands the callers of the switch have in flight at once
    hasBleak,        \* bleak.py _HAS_BLEAK: the bleak library imported
    retry_count,     \* MiPowerSwitch._retry_count
    sleep_cmd_type,  \* MiPowerSwitch._sleep_cmd_type
    polling_enabled, \* MiPowerSwitch._polling_enabled (a coordinator exists exactly then)
    media_player_entity_id,  \* MiPowerSwitch._media_player_entity_id: "None" or an entity id
    proxy_state,     \* hass.states.get(media_player_entity_id): its state string, "missing" for None
    coord_data,      \* coordinator.data["connected"]: "True", "False", "None"; "NoData": data is None
    update_raised,   \* what the last _async_update_data raised: "none", "UpdateFailed", or what escaped
    update_outs,     \* the outcomes of the client.info calls the last _async_update_data made
    service_calls,   \* the services called through hass.services.async_call
    entity,          \* the switch platform's async_setup_entry: "setup" (not run yet), "added"
                     \*   (the entity is created and added), "not_ready" (the first refresh failed)
    available,       \* MiPowerSwitch._attr_available
    is_on_cached,    \* MiPowerSwitch._is_on_cached: "None", "True", "False"
    pc,              \* per task: where the command coroutine is suspended
    phase,           \* per task: "call" (awaiting the backend) or "delay" (asyncio.sleep of _retrying)
    client,          \* per task: the sequence's local variable client
    rt,              \* per task: the _retrying invocation in progress (res = "pending"), or
                     \*   the last one finished, until the next one's first call is back
    did,             \* per task: the backend operations the run has invoked, <<backend, op>>
    trail,           \* per task: the _retrying invocations the run has finished, <<site, result>>
    ok,              \* per task: the sequence's result: "None" until it returns, "True", "False"
    burst,           \* the commands received since an awaited step last completed
    mbTracked,       \* MiBoxSocketSwitch: a media_player_entity_id is configured and tracked
    mbMediaState,    \* the tracked entity's state string ("missing": it has no state)
    mbOffCheck,      \* MiBoxSocketSwitch._off_check_handle is set
    mbIsOnInternal,  \* MiBoxSocketSwitch._is_on_internal
    mbpc,            \* MiBoxSocketSwitch.async_turn_on: "idle", or "pairing" (in the executor job)
    mbSent,          \* the lines the last _pair_device_blocking sent to bluetoothctl
    mbTimers,        \* the off-check timers of the switch pending in the event loop
    mbLast,          \* what the last step did to a pending off-check timer
    entry_mac,       \* entry.data[CONF_MAC] as the parts between its colons; << >>: no entry yet
    masked_mac,      \* "masked_mac" of the last diagnostics export, likewise; << >>: none yet
    response,        \* the lines bluetoothctl printed for the last `info` run; << >>: none yet
    bt_info,         \* what BluetoothCtlClient.info made of response: what it raised
                     \*   ("none": it returned) and the fields of the BtInfo it returned
    bk,              \* the BleakClient operation followed: op, where it is (at), the attempt
                     \*   of connect, how its last awaited step ended (ended), the handles
                     \*   it has opened (opened)
    handles          \* the bleak client handles open (entered and not exited)

mpVars == << available, is_on_cached, pc, phase, client, rt, did, trail, ok, burst >>

mbVars == << mbMediaState, mbOffCheck, mbIsOnInternal, mbpc, mbSent, mbTimers, mbLast >>

cfgVars ==
    << component, callers, hasBleak, retry_count, sleep_cmd_type, polling_enabled,
       media_player_entity_id, mbTracked >>

stVars == << proxy_state, coord_data, update_raised, update_outs, service_calls, entity >>

\* the config entry and its diagnostics; the bluetoothctl response under parse
fnVars == << entry_mac, masked_mac, response, bt_info, bk, handles >>

vars == << cfgVars, stVars, mpVars, mbVars, fnVars >>

(***************************************************************************)
(* The backends.                                                           *)
(***************************************************************************)
\* BleakClient.__init__: "ok", or the exception it raises
BleakClientInit == IF hasBleak THEN "ok" ELSE BluetoothCtlError

\* variant of ClientFactory: without the `except BluetoothCtlError` around
\* the construction
ClientFactory_NoFallback ==
    LET made == BleakClientInit
    IN IF made = "ok" THEN "bleak" ELSE made

\* switch.py client_factory: the backend of the client it returns (or the
\* exception that escapes it): BleakClient when it can be constructed, else
\* BluetoothCtlClient, whose constructor only stores its arguments
ClientFactory ==
    LET made == BleakClientInit
    IN IF made = "ok" THEN "bleak"
       ELSE IF IsInstance(made, BluetoothCtlError) THEN "cli"
       ELSE made

\* how an attempt of BleakClient.connect can end in the bleak library: the
\* device connected, asyncio.wait_for timed out, a BleakError, or the device
\* asked for pairing (which bleak reports by an exception of its own)
BleakConnectEnds == { "connected", "TimeoutError", "BleakError", "pairing" }

\* BleakClient.connect when each of its attempts ends as `end`: every
\* exception is caught in the loop and BluetoothCtlError raised after it
BleakConnect(end) == IF end = "connected" THEN "ok" ELSE BluetoothCtlError

\* BleakClient.power_off(mac): without a mac it raises before anything is
\* sent, with one it is disconnect
BleakPowerOff(mac) ==
    IF mac = "None" THEN { BluetoothCtlError }
    ELSE { "ok", BluetoothCtlTimeoutError, BluetoothCtlError }

\* how the bluetoothctl process of BluetoothCtlClient._run can go
CliRunEnds == { "exits", "cannot start", "times out" }

\* BluetoothCtlClient._run: what it raises ("none": it returns the output)
\* and whether it killed the process.  The handler of asyncio.TimeoutError
\* opens with contextlib.suppress, and the module does not import
\* contextlib: the NameError leaves the handler before proc.kill() and
\* before the raise of BluetoothCtlTimeoutError.
CliRun(end) ==
    CASE end = "cannot start" -> [raised |-> BluetoothCtlEnvError, killed |-> FALSE]
      [] end = "times out" -> [raised |-> NameError, killed |-> FALSE]
      [] OTHER -> [raised |-> "none", killed |-> FALSE]

\* What one backend call can return or raise.
\* cli (bluetoothctl.py): what _run raises; on its output
\*   _classify_common_errors raises PairingRequested or NotFound; info parses
\*   Connected: to True / False / None.
\* bleak (bleak.py): _with_client maps asyncio.TimeoutError to TimeoutError and
\*   everything else to BluetoothCtlError; info maps the outer wait_for timeout
\*   to NotFound; connect maps every failure to BluetoothCtlError; power_off
\*   is only called as power_off(None), by _sleep_sequence.
Outcomes(backend, op) ==
    IF backend = "cli"
    THEN (IF op = "info" THEN InfoValues ELSE { "ok" })
         \cup { CliRun(end).raised : end \in CliRunEnds \ { "exits" } }
         \cup { BluetoothCtlPairingRequestedError, BluetoothCtlNotFoundError }
    ELSE CASE op = "info" ->
                { "True", "False", BluetoothCtlTimeoutError, BluetoothCtlError,
                  BluetoothCtlNotFoundError }
           [] op = "connect" -> { BleakConnect(end) : end \in BleakConnectEnds }
           [] op = "disconnect" -> { "ok", BluetoothCtlTimeoutError, BluetoothCtlError }
           [] OTHER -> BleakPowerOff("None")

\* variant of CliArgv: connect runs `pair` in place of `connect`
CliArgv_Pairs(op) ==
    CASE op = "info" -> "info"
      [] op = "connect" -> "pair"
      [] op = "disconnect" -> "disconnect"
      [] OTHER -> "power off"

\* the bluetoothctl subcommand BluetoothCtlClient runs for an operation
CliArgv(op) ==
    CASE op = "info" -> "info"
      [] op = "connect" -> "connect"
      [] op = "disconnect" -> "disconnect"
      [] OTHER -> "power off"

\* the calls BleakClient makes on the bleak client for an operation
\* (power_off is only ever called with mac = None and raises before any)
BleakCalls(op) ==
    CASE op = "info" -> { "is_connected" }
      [] op = "connect" -> { "is_connected", "connect" }
      [] op = "disconnect" -> { "is_connected", "disconnect" }
      [] OTHER -> {}

\* the commands a backend sends to the Bluetooth stack for an operation
Commands(backend, op) ==
    IF backend = "cli" THEN { CliArgv(op) } ELSE BleakCalls(op)

(***************************************************************************)
(* MiPowerSwitch._retrying                                                 *)
(***************************************************************************)
\* variant of Retrying: gives up when attempt reaches retry_count (>= for >)
Retrying_OffByOne(attempt, o) ==
    IF o \in Values
    THEN [act |-> "return", attempt |-> attempt, out |-> o, delay |-> FALSE]
    ELSE IF IsInstance(o, BluetoothCtlTimeoutError) \/ IsInstance(o, BluetoothCtlNotFoundError)
         THEN IF attempt + 1 >= retry_count
              THEN [act |-> "raise", attempt |-> attempt + 1, out |-> o, delay |-> FALSE]
              ELSE [act |-> "sleep", attempt |-> attempt + 1, out |-> o, delay |-> TRUE]
         ELSE [act |-> "raise", attempt |-> attempt, out |-> o, delay |-> FALSE]

\* variant of Retrying: the except clause catches every BluetoothCtlError
Retrying_RetriesAll(attempt, o) ==
    IF o \in Values
    THEN [act |-> "return", attempt |-> attempt, out |-> o, delay |-> FALSE]
    ELSE IF IsInstance(o, BluetoothCtlError)
         THEN IF attempt + 1 > retry_count
              THEN [act |-> "raise", attempt |-> attempt + 1, out |-> o, delay |-> FALSE]
              ELSE [act |-> "sleep", attempt |-> attempt + 1, out |-> o, delay |-> TRUE]
         ELSE [act |-> "raise", attempt |-> attempt, out |-> o, delay |-> FALSE]

\* variant of Retrying: awaits the call and returns None (the return is lost)
Retrying_DropsResult(attempt, o) ==
    IF o \in Values
    THEN [act |-> "return", attempt |-> attempt, out |-> "None", delay |-> FALSE]
    ELSE IF IsInstance(o, BluetoothCtlTimeoutError) \/ IsInstance(o, BluetoothCtlNotFoundError)
         THEN IF attempt + 1 > retry_count
              THEN [act |-> "raise", attempt |-> attempt + 1, out |-> o, delay |-> FALSE]
              ELSE [act |-> "sleep", attempt |-> attempt + 1, out |-> o, delay |-> TRUE]
         ELSE [act |-> "raise", attempt |-> attempt, out |-> o, delay |-> FALSE]

\* variant of Retrying: asyncio.sleep comes before the test of attempt, so
\* the delay is also waited before the last failure is re-raised
Retrying_DelayBeforeRaise(attempt, o) ==
    IF o \in Values
    THEN [act |-> "return", attempt |-> attempt, out |-> o, delay |-> FALSE]
    ELSE IF IsInstance(o, BluetoothCtlTimeoutError) \/ IsInstance(o, BluetoothCtlNotFoundError)
         THEN IF attempt + 1 > retry_count
              THEN [act |-> "raise", attempt |-> attempt + 1, out |-> o, delay |-> TRUE]
              ELSE [act |-> "sleep", attempt |-> attempt + 1, out |-> o, delay |-> TRUE]
         ELSE [act |-> "raise", attempt |-> attempt, out |-> o, delay |-> FALSE]

\* variant of Retrying: Timeout and NotFound are retried whatever the count
Retrying_NeverGivesUp(attempt, o) ==
    IF o \in Values
    THEN [act |-> "return", attempt |-> attempt, out |-> o, delay |-> FALSE]
    ELSE IF IsInstance(o, BluetoothCtlTimeoutError) \/ IsInstance(o, BluetoothCtlNotFoundError)
         THEN [act |-> "sleep", attempt |-> attempt + 1, out |-> o, delay |-> TRUE]
         ELSE [act |-> "raise", attempt |-> attempt, out |-> o, delay |-> FALSE]

\* One pass of the loop body on the outcome o of `await coro_factory()`, with
\* `attempt` failures counted so far: return the value (out), re-raise the
\* exception (out), or sleep and go round again; delay: the pass awaits
\* asyncio.sleep(retry_delay_sec).
Retrying(attempt, o) ==
    IF o \in Values
    THEN [act |-> "return", attempt |-> attempt, out |-> o, delay |-> FALSE]
    ELSE IF IsInstance(o, BluetoothCtlTimeoutError) \/ IsInstance(o, BluetoothCtlNotFoundError)
         THEN IF attempt + 1 > retry_count
              THEN [act |-> "raise", attempt |-> attempt + 1, out |-> o, delay |-> FALSE]
              ELSE [act |-> "sleep", attempt |-> attempt + 1, out |-> o, delay |-> TRUE]
         ELSE [act |-> "raise", attempt |-> attempt, out |-> o, delay |-> FALSE]

\* a fresh invocation of _retrying at a call site of a sequence
NewRetry(site) ==
    [site |-> site, attempt |-> 0, outs |-> << >>, delays |-> 0, res |-> "pending"]

\* the backend operation a call site invokes
SiteOp(site) ==
    CASE site \in { "info_before", "info_after", "info_post" } -> "info"
      [] site \in { "connect", "fb_connect" } -> "connect"
      [] site \in { "disconnect", "sleep_disconnect" } -> "disconnect"
      [] OTHER -> "power_off"

\* the backend a call site calls: _do_info asks client_factory on every call,
\* the fallback connect is made on a BluetoothCtlClient of its own, the other
\* sites use the sequence's client
SiteBackend(site, cl) ==
    IF SiteOp(site) = "info" THEN ClientFactory
    ELSE IF site = "fb_connect" THEN "cli"
    ELSE cl

(***************************************************************************)
(* MiPowerSwitch._wake_sequence and _sleep_sequence                        *)
(***************************************************************************)
\* variant of WakeOuterExcept: without the closing `except Exception`
WakeOuterExcept_NoCatchAll(exc) ==
    IF IsInstance(exc, BluetoothCtlPairingRequestedError) THEN "False"
    ELSE IF IsInstance(exc, BluetoothCtlTimeoutError)
            \/ IsInstance(exc, BluetoothCtlNotFoundError) THEN "False"
    ELSE IF IsInstance(exc, BluetoothCtlError) THEN "False"
    ELSE "raise"

\* the except clauses that close _wake_sequence, in order
WakeOuterExcept(exc) ==
    IF IsInstance(exc, BluetoothCtlPairingRequestedError) THEN "False"
    ELSE IF IsInstance(exc, BluetoothCtlTimeoutError)
            \/ IsInstance(exc, BluetoothCtlNotFoundError) THEN "False"
    ELSE IF IsInstance(exc, BluetoothCtlError) THEN "False"
    ELSE IF IsInstance(exc, "Exception") THEN "False"
    ELSE "raise"

\* the except clauses that close _sleep_sequence, in order
SleepOuterExcept(exc) ==
    IF IsInstance(exc, BluetoothCtlTimeoutError)
       \/ IsInstance(exc, BluetoothCtlNotFoundError) THEN "False"
    ELSE IF IsInstance(exc, BluetoothCtlError) THEN "False"
    ELSE IF IsInstance(exc, "Exception") THEN "False"
    ELSE "raise"

Goto(site, cl) == [to |-> site, client |-> cl, ret |-> "None"]
Return(r, cl) == [to |-> "return", client |-> cl, ret |-> r]

\* variant of WakeReturned: connects whatever the first info says
WakeReturned_AlwaysConnects(site, v, cl) ==
    CASE site = "info_before" -> Goto("connect", ClientFactory)
      [] site = "connect" -> Goto("settle", cl)
      [] site = "fb_connect" -> Goto("settle", "cli")
      [] site = "disconnect" -> Goto("info_after", cl)
      [] OTHER -> Return("True", cl)

\* variant of WakeReturned: the verifying info has to report connected
WakeReturned_VerifyNeedsConnected(site, v, cl) ==
    CASE site = "info_before" ->
            IF v = "True" THEN Return("True", cl) ELSE Goto("connect", ClientFactory)
      [] site = "connect" -> Goto("settle", cl)
      [] site = "fb_connect" -> Goto("settle", "cli")
      [] site = "disconnect" -> Goto("info_after", cl)
      [] OTHER -> Return(IF v = "True" THEN "True" ELSE "False", cl)

\* _wake_sequence after the _retrying at `site` returned value v
WakeReturned(site, v, cl) ==
    CASE site = "info_before" ->
            IF v = "True" THEN Return("True", cl) ELSE Goto("connect", ClientFactory)
      [] site = "connect" -> Goto("settle", cl)
      [] site = "fb_connect" -> Goto("settle", "cli")
      [] site = "disconnect" -> Goto("info_after", cl)
      [] OTHER -> Return("True", cl)

\* variant of WakeRaised: the primary connect has no PairingRequested clause,
\* so that error reaches `except BluetoothCtlError` and the fallback
WakeRaised_PairingFallsBack(site, exc, cl) ==
    CASE site = "connect" ->
            IF IsInstance(exc, BluetoothCtlError) THEN Goto("fb_connect", cl)
            ELSE Return(WakeOuterExcept(exc), cl)
      [] site = "fb_connect" ->
            IF IsInstance(exc, BluetoothCtlPairingRequestedError) THEN Return("False", cl)
            ELSE IF IsInstance(exc, "Exception") THEN Return("False", cl)
            ELSE Return(WakeOuterExcept(exc), cl)
      [] site = "disconnect" ->
            IF IsInstance(exc, BluetoothCtlError) THEN Goto("info_after", cl)
            ELSE Return(WakeOuterExcept(exc), cl)
      [] OTHER -> Return(WakeOuterExcept(exc), cl)

\* variant of WakeRaised: the fallback is tried after whatever the primary
\* connect raised, pairing requests apart
WakeRaised_AnyFailureFallsBack(site, exc, cl) ==
    CASE site = "connect" ->
            IF IsInstance(exc, BluetoothCtlPairingRequestedError) THEN Return("False", cl)
            ELSE Goto("fb_connect", cl)
      [] site = "fb_connect" ->
            IF IsInstance(exc, BluetoothCtlPairingRequestedError) THEN Return("False", cl)
            ELSE IF IsInstance(exc, "Exception") THEN Return("False", cl)
            ELSE Return(WakeOuterExcept(exc), cl)
      [] site = "disconnect" ->
            IF IsInstance(exc, BluetoothCtlError) THEN Goto("info_after", cl)
            ELSE Return(WakeOuterExcept(exc), cl)
      [] OTHER -> Return(WakeOuterExcept(exc), cl)

\* variant of WakeRaised: a fallback connect that failed is logged and the
\* sequence goes on to the settle delay
WakeRaised_FallbackFailureGoesOn(site, exc, cl) ==
    CASE site = "connect" ->
            IF IsInstance(exc, BluetoothCtlPairingRequestedError) THEN Return("False", cl)
            ELSE IF IsInstance(exc, BluetoothCtlError) THEN Goto("fb_connect", cl)
            ELSE Return(WakeOuterExcept(exc), cl)
      [] site = "fb_connect" ->
            IF IsInstance(exc, BluetoothCtlPairingRequestedError) THEN Return("False", cl)
            ELSE IF IsInstance(exc, "Exception") THEN Goto("settle", cl)
            ELSE Return(WakeOuterExcept(exc), cl)
      [] site = "disconnect" ->
            IF IsInstance(exc, BluetoothCtlError) THEN Goto("info_after", cl)
            ELSE Return(WakeOuterExcept(exc), cl)
      [] OTHER -> Return(WakeOuterExcept(exc), cl)

\* variant of WakeRaised: the disconnect has no try / except of its own
WakeRaised_DisconnectFailureFails(site, exc, cl) ==
    CASE site = "connect" ->
            IF IsInstance(exc, BluetoothCtlPairingRequestedError) THEN Return("False", cl)
            ELSE IF IsInstance(exc, BluetoothCtlError) THEN Goto("fb_connect", cl)
            ELSE Return(WakeOuterExcept(exc), cl)
      [] site = "fb_connect" ->
            IF IsInstance(exc, BluetoothCtlPairingRequestedError) THEN Return("False", cl)
            ELSE IF IsInstance(exc, "Exception") THEN Return("False", cl)
            ELSE Return(WakeOuterExcept(exc), cl)
      [] OTHER -> Return(WakeOuterExcept(exc), cl)

\* _wake_sequence after the _retrying at `site` raised exc
WakeRaised(site, exc, cl) ==
    CASE site = "connect" ->
            IF IsInstance(exc, BluetoothCtlPairingRequestedError) THEN Return("False", cl)
            ELSE IF IsInstance(exc, BluetoothCtlError) THEN Goto("fb_connect", cl)
            ELSE Return(WakeOuterExcept(exc), cl)
      [] site = "fb_connect" ->
            IF IsInstance(exc, BluetoothCtlPairingRequestedError) THEN Return("False", cl)
            ELSE IF IsInstance(exc, "Exception") THEN Return("False", cl)
            ELSE Return(WakeOuterExcept(exc), cl)
      [] site = "disconnect" ->
            IF IsInstance(exc, BluetoothCtlError) THEN Goto("info_after", cl)
            ELSE Return(WakeOuterExcept(exc), cl)
      [] OTHER -> Return(WakeOuterExcept(exc), cl)

\* variant of SleepReturned: the post-check's connected value is not looked at
SleepReturned_IgnoresPostCheck(site, v, cl) ==
    IF site \in { "power_off", "sleep_disconnect" }
    THEN Goto("info_post", cl)
    ELSE Return("True", cl)

\* _sleep_sequence after the _retrying at `site` returned value v
SleepReturned(site, v, cl) ==
    IF site \in { "power_off", "sleep_disconnect" }
    THEN Goto("info_post", cl)
    ELSE Return(IF v = "False" \/ v = "None" THEN "True" ELSE "False", cl)

\* variant of SleepRaised: a pairing request of the sleep command is logged
\* and the sequence goes on to the post-check
SleepRaised_PairingGoesOn(site, exc, cl) ==
    IF site \in { "power_off", "sleep_disconnect" }
       /\ IsInstance(exc, BluetoothCtlPairingRequestedError)
    THEN Goto("info_post", cl)
    ELSE Return(SleepOuterExcept(exc), cl)

\* _sleep_sequence after the _retrying at `site` raised exc
SleepRaised(site, exc, cl) ==
    IF site = "power_off" /\ IsInstance(exc, BluetoothCtlPairingRequestedError)
    THEN Return("False", cl)
    ELSE Return(SleepOuterExcept(exc), cl)

WakeSites == { "info_before", "connect", "fb_connect", "disconnect", "info_after" }
SleepSites == { "power_off", "sleep_disconnect", "info_post" }
Sites == WakeSites \cup SleepSites

Continue(site, act, o, cl) ==
    IF site \in WakeSites
    THEN (IF act = "return" THEN WakeReturned(site, o, cl) ELSE WakeRaised(site, o, cl))
    ELSE (IF act = "return" THEN SleepReturned(site, o, cl) ELSE SleepRaised(site, o, cl))

\* the first site of _sleep_sequence, by configuration
SleepFirstSite ==
    IF sleep_cmd_type = SLEEP_CMD_POWER_OFF THEN "power_off" ELSE "sleep_disconnect"

(***************************************************************************)
(* MiPowerSwitch.async_turn_on / async_turn_off                            *)
(***************************************************************************)
\* the tail of async_turn_on / async_turn_off once the sequence returned r
AvailableAfter(r, before) == IF r = "True" THEN before ELSE FALSE

CachedAfter(kind, r, before) ==
    IF r = "True" THEN (IF kind = "wake" THEN "True" ELSE "False") ELSE before

\* variant of TurnOffServiceCalls: async_turn_off turns the proxy entity off
TurnOffServiceCalls_Proxy == { "media_player.turn_off" }

\* the services async_turn_off calls on other entities: none
TurnOffServiceCalls == {}

(***************************************************************************)
(* MiPowerSwitch.is_on and its sources                                     *)
(***************************************************************************)
\* variant of MapMediaStateToOn: the state list of the mibox_socket switch
MapMediaStateToOn_Active(state) ==
    IF state \in { "on", "playing", "active" } THEN "True" ELSE "False"

\* _map_media_state_to_on
MapMediaStateToOn(state) ==
    IF state \in { "on", "playing", "idle" } THEN "True" ELSE "False"

\* variant of IsOn: the media_player fallback is looked at first
IsOn_ProxyFirst ==
    IF media_player_entity_id # "None" /\ proxy_state # "missing"
    THEN MapMediaStateToOn(proxy_state)
    ELSE IF polling_enabled /\ coord_data # "NoData"
    THEN (IF coord_data # "None" THEN coord_data ELSE is_on_cached)
    ELSE is_on_cached

\* property is_on
IsOn ==
    IF polling_enabled /\ coord_data # "NoData"
    THEN (IF coord_data # "None" THEN coord_data ELSE is_on_cached)
    ELSE IF media_player_entity_id # "None" /\ proxy_state # "missing"
    THEN MapMediaStateToOn(proxy_state)
    ELSE is_on_cached

\* the extra state attributes the entity exposes: MiPowerSwitch defines none
ExtraStateAttributes == {}

\* hass.data[DOMAIN][entry_id]["last_attempts"], as diagnostics reads it: no
\* code writes the key, so it is the default
LastAttempts == << >>

\* variant of UpdateData: without the closing `except Exception`
UpdateData_NoCatchAll(o) ==
    IF o \in Values THEN [data |-> o, raised |-> "none"]
    ELSE IF IsInstance(o, BluetoothCtlPairingRequestedError)
    THEN [data |-> "NoData", raised |-> "UpdateFailed"]
    ELSE IF IsInstance(o, BluetoothCtlTimeoutError) \/ IsInstance(o, BluetoothCtlNotFoundError)
    THEN [data |-> "NoData", raised |-> "UpdateFailed"]
    ELSE IF IsInstance(o, BluetoothCtlError)
    THEN [data |-> "NoData", raised |-> "UpdateFailed"]
    ELSE [data |-> "NoData", raised |-> o]

\* MiPowerCoordinator._async_update_data on the outcome o of client.info: the
\* connected value it returns, or what it raises
UpdateData(o) ==
    IF o \in Values THEN [data |-> o, raised |-> "none"]
    ELSE IF IsInstance(o, BluetoothCtlPairingRequestedError)
    THEN [data |-> "NoData", raised |-> "UpdateFailed"]
    ELSE IF IsInstance(o, BluetoothCtlTimeoutError) \/ IsInstance(o, BluetoothCtlNotFoundError)
    THEN [data |-> "NoData", raised |-> "UpdateFailed"]
    ELSE IF IsInstance(o, BluetoothCtlError)
    THEN [data |-> "NoData", raised |-> "UpdateFailed"]
    ELSE IF IsInstance(o, "Exception")
    THEN [data |-> "NoData", raised |-> "UpdateFailed"]
    ELSE [data |-> "NoData", raised |-> o]

TypeOK ==
    /\ component \in { "mipower", "mibox_socket", "config_entry", "bluetoothctl", "bleak" }
    /\ callers \in 1..NumTasks
    /\ hasBleak \in BOOLEAN
    /\ retry_count \in MIN_RETRY_COUNT..MAX_RETRY_COUNT
    /\ sleep_cmd_type \in { SLEEP_CMD_DISCONNECT, SLEEP_CMD_POWER_OFF }
    /\ polling_enabled \in BOOLEAN
    /\ media_player_entity_id \in { "None", "media_player.mibox" }
    /\ proxy_state \in MediaStates
    /\ coord_data \in InfoValues \cup { "NoData" }
    /\ update_raised \in { "none", "UpdateFailed" } \cup Exceptions
    /\ Len(update_outs) <= 1
    /\ service_calls \subseteq { "media_player.turn_off" }
    /\ entity \in { "setup", "added", "not_ready" }
    /\ available \in BOOLEAN
    /\ is_on_cached \in { "None", "True", "False" }
    /\ pc \in [Tasks -> { "idle", "settle", "done", "raised" } \cup Sites]
    /\ phase \in [Tasks -> { "call", "delay" }]
    /\ client \in [Tasks -> Backends]
    /\ did \in [Tasks -> SUBSET (Backends \X Ops)]
    /\ \A t \in Tasks : Len(trail[t]) <= 5
    /\ ok \in [Tasks -> { "None", "True", "False" }]
    /\ burst \in 0..NumTasks
    /\ mbTracked \in BOOLEAN
    /\ mbMediaState \in MediaStates
    /\ mbOffCheck \in BOOLEAN
    /\ mbTimers \in Nat
    /\ mbLast \in { "none", "cancelled", "fired" }
    /\ mbIsOnInternal \in BOOLEAN
    /\ mbpc \in { "idle", "pairing" }
    /\ Len(entry_mac) \in { 0, 6 }
    /\ Len(masked_mac) \in { 0, 6 }
    /\ bk.op \in Ops \cup { "none" }
    /\ bk.at \in { "idle", "aenter", "block", "aexit" }
    /\ bk.attempt \in 0..BLEAK_CONNECT_RETRIES
    /\ bk.opened \in 0..bk.attempt
    /\ handles \in 0..1

\* the state when the switch platform is about to be set up for the config
\* entry (MiBoxSocketSwitch: after it is set up), with n callers and the
\* options drawn from the sets
InitFor(n, retries, sleeps, bleaks, pollings, proxies) ==
    /\ component \in { "mipower", "mibox_socket", "config_entry", "bluetoothctl", "bleak" }
    /\ callers = n
    /\ hasBleak \in (IF component = "mipower" THEN bleaks ELSE { FALSE })
    /\ retry_count \in (IF component = "mipower" THEN retries ELSE { DEFAULT_RETRY_COUNT })
    /\ sleep_cmd_type \in (IF component = "mipower" THEN sleeps ELSE { SLEEP_CMD_DISCONNECT })
    /\ polling_enabled \in (IF component = "mipower" THEN pollings ELSE { FALSE })
    /\ media_player_entity_id \in (IF component = "mipower" THEN proxies ELSE { "None" })
    /\ proxy_state \in (IF media_player_entity_id = "None" THEN { "missing" } ELSE MediaStates)
    /\ coord_data = "NoData"
    /\ update_raised = "none"
    /\ update_outs = << >>
    /\ service_calls = {}
    /\ entity = IF component = "mipower" THEN "setup" ELSE "added"
    /\ mbTracked \in (IF component = "mibox_socket" THEN BOOLEAN ELSE { FALSE })
    /\ mbMediaState \in (IF mbTracked THEN MediaStates ELSE { "missing" })
    /\ mbOffCheck = FALSE
    /\ mbTimers = 0
    /\ mbLast = "none"
    /\ mbIsOnInternal = FALSE
    /\ mbpc = "idle"
    /\ mbSent = << >>
    /\ available = TRUE
    /\ is_on_cached = "None"
    /\ pc = [t \in Tasks |-> "idle"]
    /\ phase = [t \in Tasks |-> "call"]
    /\ client = [t \in Tasks |-> "cli"]
    /\ rt = [t \in Tasks |-> NewRetry("none")]
    /\ did = [t \in Tasks |-> {}]
    /\ trail = [t \in Tasks |-> << >>]
    /\ ok = [t \in Tasks |-> "None"]
    /\ burst = 0
    /\ entry_mac = << >>
    /\ masked_mac = << >>
    /\ response = << >>
    /\ bt_info = [raised |-> "none", info |-> BtInfo]
    /\ bk = [op |-> "none", at |-> "idle", attempt |-> 0, ended |-> "none", opened |-> 0]
    /\ handles = 0

\* commands come one after the other (each is awaited before the next is
\* sent); the options are varied a group at a time: the retry, sleep-command
\* and backend options without polling and proxy, then polling and the proxy
\* with the retry and sleep-command options at their defaults
Init ==
    \/ InitFor(1, MIN_RETRY_COUNT..MAX_RETRY_COUNT,
               { SLEEP_CMD_DISCONNECT, SLEEP_CMD_POWER_OFF }, BOOLEAN,
               { FALSE }, { "None" })
    \/ InitFor(1, { DEFAULT_RETRY_COUNT }, { SLEEP_CMD_DISCONNECT }, BOOLEAN,
               BOOLEAN, { "None", "media_player.mibox" })

\* as Init, and commands from independent callers (service calls,
\* automations) with the default retry_count and the bleak library installed
InitConc ==
    \/ Init
    \/ InitFor(NumTasks, { DEFAULT_RETRY_COUNT },
               { SLEEP_CMD_DISCONNECT, SLEEP_CMD_POWER_OFF }, { TRUE },
               { FALSE }, { "None" })

\* the command coroutines that have not finished
InFlight == { t \in Tasks : pc[t] \notin { "idle", "done", "raised" } }

\* a command is received and runs as coroutine t, the first one that is free
Receive(t) ==
    /\ pc[t] \in { "idle", "done" }
    /\ \A u \in Tasks : u < t => u \in InFlight
    /\ Cardinality(InFlight) < callers
    /\ burst' = IF burst < NumTasks THEN burst + 1 ELSE burst

\* task t suspends in the first backend call of _retrying at `site`
Enter(t, site, cl) ==
    /\ pc' = [pc EXCEPT ![t] = site]
    /\ phase' = [phase EXCEPT ![t] = "call"]
    /\ client' = [client EXCEPT ![t] = cl]

\* the run of task t invokes the operation of `site`
Invoke(t, site, cl) ==
    did' = [did EXCEPT ![t] = @ \cup { << SiteBackend(site, cl), SiteOp(site) >> }]

\* async_turn_on up to its first suspension: the info call of the wake sequence
TurnOn(t) ==
    /\ component = "mipower"
    /\ entity = "added"
    /\ Receive(t)
    /\ available' = TRUE
    /\ Enter(t, "info_before", client[t])
    /\ rt' = [rt EXCEPT ![t] = NewRetry("info_before")]
    /\ did' = [did EXCEPT ![t] = { << ClientFactory, "info" >> }]
    /\ trail' = [trail EXCEPT ![t] = << >>]
    /\ ok' = [ok EXCEPT ![t] = "None"]
    /\ UNCHANGED << cfgVars, fnVars, stVars, mbVars, is_on_cached >>

\* async_turn_off up to its first suspension: the sleep command
TurnOff(t) ==
    /\ component = "mipower"
    /\ entity = "added"
    /\ Receive(t)
    /\ available' = TRUE
    /\ Enter(t, SleepFirstSite, ClientFactory)
    /\ rt' = [rt EXCEPT ![t] = NewRetry(SleepFirstSite)]
    /\ did' = [did EXCEPT ![t] = { << ClientFactory, SiteOp(SleepFirstSite) >> }]
    /\ trail' = [trail EXCEPT ![t] = << >>]
    /\ ok' = [ok EXCEPT ![t] = "None"]
    /\ service_calls' = service_calls \cup TurnOffServiceCalls
    /\ UNCHANGED << cfgVars, fnVars, proxy_state, coord_data, update_raised, update_outs, entity,
                    mbVars, is_on_cached >>

\* the sequence of task t returned r (or let an exception escape): the rest of
\* async_turn_on / async_turn_off
Finish(t, r) ==
    /\ pc' = [pc EXCEPT ![t] = IF r = "raise" THEN "raised" ELSE "done"]
    /\ ok' = [ok EXCEPT ![t] = IF r = "raise" THEN "None" ELSE r]
    /\ available' = IF r = "raise" THEN available ELSE AvailableAfter(r, available)
    /\ is_on_cached' =
         IF r = "raise" THEN is_on_cached
         ELSE CachedAfter(IF pc[t] \in WakeSites THEN "wake" ELSE "sleep", r, is_on_cached)
    /\ UNCHANGED << phase, client, did >>

\* the backend call task t awaits returns or raises o; the coroutine runs on
\* to its next suspension or to the end of the handler
BackendReturns(t) ==
    /\ component = "mipower"
    /\ pc[t] \in Sites
    /\ phase[t] = "call"
    /\ \E o \in Outcomes(SiteBackend(pc[t], client[t]), SiteOp(pc[t])) :
         LET cur == IF rt[t].res = "pending" THEN rt[t] ELSE NewRetry(pc[t])
             r == Retrying(cur.attempt, o)
             seen == [cur EXCEPT !.attempt = r.attempt, !.outs = Append(@, o)]
         IN IF r.act = "sleep"
            THEN /\ rt' = [rt EXCEPT ![t] = seen]
                 /\ phase' = [phase EXCEPT ![t] = "delay"]
                 /\ UNCHANGED << pc, client, did, trail, ok, available, is_on_cached >>
            ELSE LET k == Continue(pc[t], r.act, r.out, client[t])
                 IN /\ rt' = [rt EXCEPT ![t] =
                                [seen EXCEPT !.res = r.out,
                                             !.delays = @ + (IF r.delay THEN 1 ELSE 0)]]
                    /\ trail' = [trail EXCEPT ![t] = Append(@, << pc[t], r.out >>)]
                    /\ IF k.to = "return"
                       THEN Finish(t, k.ret)
                       ELSE IF k.to = "settle"
                       THEN /\ pc' = [pc EXCEPT ![t] = "settle"]
                            /\ client' = [client EXCEPT ![t] = k.client]
                            /\ UNCHANGED << phase, did, ok, available, is_on_cached >>
                       ELSE /\ Enter(t, k.to, k.client)
                            /\ Invoke(t, k.to, k.client)
                            /\ UNCHANGED << ok, available, is_on_cached >>
    /\ burst' = 0
    /\ UNCHANGED << cfgVars, fnVars, stVars, mbVars >>

\* asyncio.sleep(retry_delay_sec) of _retrying is over: the next attempt is called
RetryDelayElapsed(t) ==
    /\ component = "mipower"
    /\ pc[t] \in Sites
    /\ phase[t] = "delay"
    /\ phase' = [phase EXCEPT ![t] = "call"]
    /\ rt' = [rt EXCEPT ![t].delays = @ + 1]
    /\ burst' = 0
    /\ UNCHANGED << cfgVars, fnVars, stVars, mbVars, available, is_on_cached, pc, client, did, trail, ok >>

\* asyncio.sleep(disconnect_delay_sec) of _wake_sequence is over: disconnect is called
SettleElapsed(t) ==
    /\ component = "mipower"
    /\ pc[t] = "settle"
    /\ Enter(t, "disconnect", client[t])
    /\ Invoke(t, "disconnect", client[t])
    /\ burst' = 0
    /\ UNCHANGED << cfgVars, fnVars, stVars, mbVars, available, is_on_cached, rt, trail, ok >>


(***************************************************************************)
(* The polling coordinator and the proxy entity of MiPowerSwitch           *)
(***************************************************************************)
\* variant of AsyncSetupEntry: the first refresh is not awaited before the
\* entity is created
AsyncSetupEntry_SkipsFirstRefresh(u) == "added"

\* async_setup_entry of the switch platform, on the result u of the first
\* refresh: async_config_entry_first_refresh raises when the refresh failed,
\* and the lines creating and adding MiPowerSwitch are not reached
AsyncSetupEntry(u) ==
    IF polling_enabled /\ u.raised # "none" THEN "not_ready" ELSE "added"

\* the switch platform is set up for the config entry (again, after a
\* not-ready): with polling the coordinator's first refresh, then the entity
\* and its async_added_to_hass
SetupEntry ==
    /\ component = "mipower"
    /\ entity # "added"
    /\ \E o \in Outcomes(ClientFactory, "info") :
         LET u == IF polling_enabled THEN UpdateData(o)
                                     ELSE [data |-> "NoData", raised |-> "none"]
         IN /\ entity' = AsyncSetupEntry(u)
            /\ coord_data' = IF u.raised = "none" THEN u.data ELSE coord_data
            /\ update_raised' = u.raised
            /\ update_outs' = IF polling_enabled THEN << o >> ELSE << >>
    /\ is_on_cached' =
         IF entity' = "added" /\ ~polling_enabled
            /\ media_player_entity_id # "None" /\ proxy_state # "missing"
         THEN MapMediaStateToOn(proxy_state)
         ELSE is_on_cached
    /\ UNCHANGED << cfgVars, fnVars, proxy_state, service_calls, mbVars,
                    available, pc, phase, client, rt, did, trail, ok, burst >>

\* one refresh of the coordinator: _async_update_data calls client.info once
\* (no _retrying); DataUpdateCoordinator keeps the data of the last refresh
\* that returned and runs the next refresh whatever this one raised
CoordinatorUpdate ==
    /\ component = "mipower"
    /\ entity = "added"
    /\ polling_enabled
    /\ \E o \in Outcomes(ClientFactory, "info") :
         LET u == UpdateData(o)
         IN /\ coord_data' = IF u.raised = "none" THEN u.data ELSE coord_data
            /\ update_raised' = u.raised
            /\ update_outs' = << o >>
    /\ UNCHANGED << cfgVars, fnVars, proxy_state, service_calls, entity, mpVars, mbVars >>

\* the proxy entity changes state; _handle_media_state_event, which
\* async_added_to_hass registers when polling is off
HandleMediaStateEvent ==
    /\ component = "mipower"
    /\ entity = "added"
    /\ media_player_entity_id # "None"
    /\ \E s \in MediaStates \ { proxy_state } :
         /\ proxy_state' = s
         /\ is_on_cached' = IF ~polling_enabled /\ s # "missing"
                             THEN MapMediaStateToOn(s)
                             ELSE is_on_cached
    /\ UNCHANGED << cfgVars, fnVars, coord_data, update_raised, update_outs, service_calls, entity, mbVars,
                    available, pc, phase, client, rt, did, trail, ok, burst >>

(***************************************************************************)
(* The config flow and the diagnostics of mipower.  A string is modelled   *)
(* by the parts str.split(":") gives (the empty string by << >>), a part   *)
(* by its text.                                                            *)
(***************************************************************************)
MaxParts == 7

\* what the user types into the MAC field, before the last part is cut off
MacSamples ==
    { << "E0", "B6", "55", "12", "9A", "3C", "00" >>,
      << "e0", "b6", "55", "12", "9a", "3c", "00" >>,
      << "AA", "BB", "CC", "DD", "EE", "FF", "00" >>,
      << "AA", "BB", "CC", "DD", "EE", "F", "00" >>,
      << "AA", "BB", "CC", "DD", "EE", "GG", "00" >>,
      << "AA-BB-CC-DD-EE-FF" >> }

MacInputs ==
    UNION { { SubSeq(m, 1, n) : n \in 0..(IF Len(m) < MaxParts THEN Len(m) ELSE MaxParts) } :
            m \in MacSamples }

\* str.upper on a part
Upper(part) ==
    CASE part = "e0" -> "E0"
      [] part = "b6" -> "B6"
      [] part = "9a" -> "9A"
      [] part = "3c" -> "3C"
      [] OTHER -> part

\* the parts that are two hexadecimal digits
HexOctets ==
    { "E0", "B6", "55", "12", "9A", "3C", "00", "e0", "b6", "9a", "3c",
      "AA", "BB", "CC", "DD", "EE", "FF" }

\* const.py normalize_mac (none of the inputs has blanks to strip)
NormalizeMac(mac) == [i \in 1..Len(mac) |-> Upper(mac[i])]

\* const.py is_valid_mac: MAC_REGEX, six colon-separated pairs of hex digits
IsValidMac(mac) == Len(mac) = 6 /\ \A i \in 1..6 : mac[i] \in HexOctets

\* variant of MaskMac: only the last part is replaced
MaskMac_LastOnly(mac) ==
    IF mac = << >> THEN << "UNKNOWN" >>
    ELSE IF Len(mac) = 6 THEN SubSeq(mac, 1, 5) \o << "**" >>
    ELSE mac

\* diagnostics.py _mask_mac
MaskMac(mac) ==
    IF mac = << >> THEN << "UNKNOWN" >>
    ELSE IF Len(mac) = 6 THEN SubSeq(mac, 1, 4) \o << "**", "**" >>
    ELSE mac

\* MiPowerConfigFlow.async_step_user with a MAC typed in: the entry is
\* created with the normalized address, or the form is shown again
AsyncStepUser ==
    /\ component = "config_entry"
    /\ entry_mac = << >>
    /\ \E input \in MacInputs :
         LET mac == NormalizeMac(input)
         IN entry_mac' = IF IsValidMac(mac) THEN mac ELSE entry_mac
    /\ UNCHANGED << cfgVars, stVars, mpVars, mbVars, masked_mac, response, bt_info,
                    bk, handles >>

\* async_get_config_entry_diagnostics: the masked_mac it exports
GetConfigEntryDiagnostics ==
    /\ component = "config_entry"
    /\ entry_mac # << >>
    /\ masked_mac' = MaskMac(entry_mac)
    /\ UNCHANGED << cfgVars, stVars, mpVars, mbVars, entry_mac, response, bt_info,
                    bk, handles >>

(***************************************************************************)
(* BluetoothCtlClient.info on the text bluetoothctl printed.  The output   *)
(* is modelled by its lines (str.splitlines), a line by its text.          *)
(***************************************************************************)
PAIRING_HINTS == { "pair", "authentication", "passkey", "pincode", "confirm", "authorize" }
NOT_FOUND_HINTS == { "not available", "not found", "no such device" }
\* defined by the module and used by none of its functions
TIMEOUT_HINTS == { "timed out", "timeout" }

UpperCase == "ABCDEFGHIJKLMNOPQRSTUVWXYZ"
LowerCase == "abcdefghijklmnopqrstuvwxyz"

\* str.lower on one character
LowerChar(c) ==
    IF \E i \in 1..Len(UpperCase) : SubSeq(UpperCase, i, i) = c
    THEN LET i == CHOOSE i \in 1..Len(UpperCase) : SubSeq(UpperCase, i, i) = c
         IN SubSeq(LowerCase, i, i)
    ELSE c

RECURSIVE Lower(_)
\* str.lower
Lower(s) ==
    IF s = "" THEN ""
    ELSE LowerChar(SubSeq(s, 1, 1)) \o Lower(SubSeq(s, 2, Len(s)))

\* `needle in text`
Contains(text, needle) ==
    \E i \in 1..(Len(text) - Len(needle) + 1) :
        SubSeq(text, i, i + Len(needle) - 1) = needle

\* str.startswith
StartsWith(s, prefix) ==
    Len(s) >= Len(prefix) /\ SubSeq(s, 1, Len(prefix)) = prefix

Blank(c) == c \in { " ", "\t" }

RECURSIVE Strip(_)
\* str.strip
Strip(s) ==
    IF s = "" THEN ""
    ELSE IF Blank(SubSeq(s, 1, 1)) THEN Strip(SubSeq(s, 2, Len(s)))
    ELSE IF Blank(SubSeq(s, Len(s), Len(s))) THEN Strip(SubSeq(s, 1, Len(s) - 1))
    ELSE s

\* line.split(":", 1): the text before and after the first colon, or the
\* line alone when it has none
SplitColon(line) ==
    LET at == { i \in 1..Len(line) : SubSeq(line, i, i) = ":" }
    IN IF at = {} THEN << line >>
       ELSE LET i == CHOOSE i \in at : \A j \in at : i <= j
            IN << SubSeq(line, 1, i - 1), SubSeq(line, i + 1, Len(line)) >>

\* _contains_any on the output: no hint spans two lines, so a hint is in the
\* text exactly when it is in one of its lines
ContainsAny(output, needles) ==
    \E k \in 1..Len(output) :
        LET text == Lower(output[k])
        IN \E n \in needles : Contains(text, n)

\* _parse_yes_no
ParseYesNo(line) ==
    LET parts == SplitColon(line)
    IN IF Len(parts) # 2 THEN "None"
       ELSE LET val == Lower(Strip(parts[2]))
            IN IF val \in { "yes", "true", "on" } THEN "True"
               ELSE IF val \in { "no", "false", "off" } THEN "False"
               ELSE "None"

\* what _parse_info leaves in the field whose lines start with `key`: the
\* value of the last such line, the fresh BtInfo's without one
ParseField(output, key, default) ==
    LET at == { k \in 1..Len(output) : StartsWith(Lower(Strip(output[k])), key) }
    IN IF at = {} THEN default
       ELSE ParseYesNo(Strip(output[CHOOSE k \in at : \A j \in at : j <= k]))

\* _parse_info: the connected, paired and trusted fields of the BtInfo
ParseInfo(output) ==
    [connected |-> ParseField(output, "connected:", BtInfo.connected),
     paired |-> ParseField(output, "paired:", BtInfo.paired),
     trusted |-> ParseField(output, "trusted:", BtInfo.trusted)]

\* variant of ClassifyCommonErrors: the not-found hints are looked for first
ClassifyCommonErrors_NotFoundFirst(output) ==
    IF ContainsAny(output, NOT_FOUND_HINTS) THEN BluetoothCtlNotFoundError
    ELSE IF ContainsAny(output, PAIRING_HINTS) THEN BluetoothCtlPairingRequestedError
    ELSE "none"

\* _classify_common_errors: the exception it raises, "none" when it returns
ClassifyCommonErrors(output) ==
    IF ContainsAny(output, PAIRING_HINTS) THEN BluetoothCtlPairingRequestedError
    ELSE IF ContainsAny(output, NOT_FOUND_HINTS) THEN BluetoothCtlNotFoundError
    ELSE "none"

\* BluetoothCtlClient.info on the output _run returned: what it raises, or
\* the BtInfo it returns (a fresh BtInfo stands in when it raises)
CliInfo(output) ==
    LET exc == ClassifyCommonErrors(output)
    IN IF exc # "none" THEN [raised |-> exc, info |-> BtInfo]
       ELSE [raised |-> "none", info |-> ParseInfo(output)]

\* the line bluetoothctl prints for a field, as `info <mac>` lays it out
FieldLine(field, value) == "\t" \o field \o ": " \o value

PromptLine == "[agent] Confirm passkey 123456 (yes/no):"
NotAvailableLine == "Device E0:B6:55:12:9A:3C not available"

\* the outputs of `bluetoothctl info <mac>` tried: the device header and
\* name, each of Paired / Trusted / Connected with yes, no or left out, and
\* nothing more, a pairing prompt or the not-available message
Responses ==
    { << "Device E0:B6:55:12:9A:3C (public)", FieldLine("Name", "Mi Box") >>
      \o (IF p = "absent" THEN << >> ELSE << FieldLine("Paired", p) >>)
      \o (IF t = "absent" THEN << >> ELSE << FieldLine("Trusted", t) >>)
      \o (IF c = "absent" THEN << >> ELSE << FieldLine("Connected", c) >>)
      \o (IF x = "none" THEN << >> ELSE << x >>) :
        p \in { "absent", "yes", "no" }, t \in { "absent", "yes", "no" },
        c \in { "absent", "yes", "no" }, x \in { "none", PromptLine, NotAvailableLine } }

\* lines bluetoothctl and its agent print, with the hint class each holds:
\* hints at the start, in the middle and at the end of a line, in lower,
\* upper and mixed case
HintLines ==
    { [text |-> "Failed to pair: org.bluez.Error.AuthenticationFailed", class |-> "pairing"],
      [text |-> "PASSKEY required", class |-> "pairing"],
      [text |-> "Request confirmation", class |-> "pairing"],
      [text |-> "Device E0:B6:55:12:9A:3C not available", class |-> "not_found"],
      [text |-> "No Such Device", class |-> "not_found"],
      [text |-> "Device NOT FOUND on controller", class |-> "not_found"],
      [text |-> "Failed to connect: Connection timed out", class |-> "timeout"],
      [text |-> "Connection successful", class |-> "plain"],
      [text |-> "Attempting to connect to E0:B6:55:12:9A:3C", class |-> "plain"] }

\* the outputs of one or two such lines, in either order
HintResponses ==
    { << a.text >> : a \in HintLines }
    \cup { << p[1].text, p[2].text >> :
             p \in { q \in HintLines \X HintLines : q[1] # q[2] } }

\* a run of BluetoothCtlClient.info whose process printed an output (the
\* client keeps nothing from one run to the next: one run is followed)
RunCliInfo ==
    /\ component = "bluetoothctl"
    /\ response = << >>
    /\ \E output \in Responses \cup HintResponses :
         /\ response' = output
         /\ bt_info' = CliInfo(output)
    /\ UNCHANGED << cfgVars, stVars, mpVars, mbVars, entry_mac, masked_mac, bk, handles >>

(***************************************************************************)
(* BleakClient and the handle of _with_client.  An operation is followed   *)
(* from one await to the next: entering `async with _BleakClient(mac)`,    *)
(* the block under it, leaving it.  asyncio.wait_for around _with_client   *)
(* cancels what is awaited when the timeout is over.                       *)
(***************************************************************************)
\* how an awaited step under wait_for can end
AwaitEnds == { "returns", "raises", "cancelled" }

\* variant of WithClientExit: the handle is opened and closed by plain calls
\* (client.connect() ... client.disconnect()), no context manager
WithClientExit_PlainCalls(ended) ==
    IF ended = "returns" THEN "aexit" ELSE "over"

\* `async with _BleakClient(mac) as client`: where the block goes when it
\* ended: __aexit__ runs whether it returned, raised or was cancelled
WithClientExit(ended) == "aexit"

\* an attempt of the operation is over: connect goes round its loop after a
\* failure while attempts are left, everything else returns or raises
BleakAttemptOver(ended) ==
    IF bk.op = "connect" /\ ended # "returns" /\ bk.attempt < BLEAK_CONNECT_RETRIES
    THEN [bk EXCEPT !.at = "aenter", !.attempt = @ + 1, !.ended = ended]
    ELSE [bk EXCEPT !.at = "idle", !.ended = ended]

\* an operation is called: power_off is only called with mac = None and
\* raises before _with_client; the others enter the context manager
BleakCall ==
    /\ component = "bleak"
    /\ bk.at = "idle"
    /\ \E op \in Ops :
         bk' = IF op = "power_off"
               THEN [op |-> op, at |-> "idle", attempt |-> 0, ended |-> "raises", opened |-> 0]
               ELSE [op |-> op, at |-> "aenter", attempt |-> 1, ended |-> "none", opened |-> 0]
    /\ UNCHANGED << cfgVars, stVars, mpVars, mbVars, entry_mac, masked_mac, response,
                    bt_info, handles >>

\* __aenter__ is over: the handle is open and the block starts, or there is
\* no handle and the attempt is over
BleakAenter ==
    /\ component = "bleak"
    /\ bk.at = "aenter"
    /\ \E ended \in AwaitEnds :
         IF ended = "returns"
         THEN /\ bk' = [bk EXCEPT !.at = "block", !.opened = @ + 1]
              /\ handles' = handles + 1
         ELSE /\ bk' = BleakAttemptOver(ended)
              /\ UNCHANGED handles
    /\ UNCHANGED << cfgVars, stVars, mpVars, mbVars, entry_mac, masked_mac, response, bt_info >>

\* the block under the handle (`return await coro(client)`) is over
BleakBlock ==
    /\ component = "bleak"
    /\ bk.at = "block"
    /\ \E ended \in AwaitEnds :
         bk' = IF WithClientExit(ended) = "aexit"
               THEN [bk EXCEPT !.at = "aexit", !.ended = ended]
               ELSE BleakAttemptOver(ended)
    /\ UNCHANGED << cfgVars, stVars, mpVars, mbVars, entry_mac, masked_mac, response,
                    bt_info, handles >>

\* __aexit__ is over: it has disconnected, the handle is released
BleakAexit ==
    /\ component = "bleak"
    /\ bk.at = "aexit"
    /\ handles' = handles - 1
    /\ bk' = BleakAttemptOver(bk.ended)
    /\ UNCHANGED << cfgVars, stVars, mpVars, mbVars, entry_mac, masked_mac, response, bt_info >>

(***************************************************************************)
(* MiBoxSocketSwitch (custom_components/mibox_socket/switch.py)            *)
(***************************************************************************)
\* _device_is_on: the tracked entity's state is one of on / playing / active
DeviceIsOn == mbTracked /\ mbMediaState \in { "on", "playing", "active" }

\* _pair_device_blocking: the lines it sends to the bluetoothctl session and
\* its result, by what the session answers: pexpect imports, bluetoothctl
\* spawns, the scan shows the MAC, and the index child.expect returns after
\* `pair` (0, 1: paired; 2..5: failed or timed out; 6: expect raised)
PairDeviceBlocking(importOk, spawnOk, found, idx) ==
    IF ~importOk \/ ~spawnOk
    THEN [sent |-> << >>, success |-> FALSE]
    ELSE LET scan == << "agent NoInputNoOutput", "default-agent", "scan on" >>
         IN IF ~found
            THEN [sent |-> scan \o << "scan off" >>, success |-> FALSE]
            ELSE IF idx \in { 0, 1 }
            THEN [sent |-> scan \o << "pair", "trust", "scan off" >>, success |-> TRUE]
            ELSE [sent |-> scan \o << "pair", "scan off" >>, success |-> FALSE]

\* _cancel_off_check: the cancel callback of the handle takes its timer out
\* of the event loop, and the handle is cleared
CancelOffCheck ==
    [handle |-> FALSE,
     timers |-> IF mbOffCheck THEN mbTimers - 1 ELSE mbTimers,
     last   |-> IF mbOffCheck THEN "cancelled" ELSE "none"]

\* variant of ScheduleOffCheck: the new timer is set without cancelling the
\* one the handle holds
ScheduleOffCheck_NoCancel ==
    [handle |-> TRUE, timers |-> mbTimers + 1, last |-> "none"]

\* _schedule_off_check: _cancel_off_check, then async_call_later sets a new
\* timer and the handle keeps its cancel callback
ScheduleOffCheck ==
    [handle |-> TRUE, timers |-> CancelOffCheck.timers + 1, last |-> CancelOffCheck.last]

\* async_turn_on up to the executor job: cancel the off-check, return when
\* the tracked device is on or bluetoothctl is missing, else start pairing
MbTurnOn ==
    /\ component = "mibox_socket"
    /\ mbpc = "idle"
    /\ mbOffCheck' = CancelOffCheck.handle
    /\ mbTimers' = CancelOffCheck.timers
    /\ mbLast' = CancelOffCheck.last
    /\ \E which \in BOOLEAN :
         IF DeviceIsOn \/ ~which
         THEN UNCHANGED << mbpc, mbIsOnInternal, mbSent >>
         ELSE /\ mbpc' = "pairing"
              /\ mbIsOnInternal' = IF mbTracked THEN mbIsOnInternal ELSE TRUE
              /\ mbSent' = << >>
    /\ UNCHANGED << cfgVars, fnVars, stVars, mpVars, mbMediaState >>

\* the executor job of async_turn_on returns; the finally clause
MbPairDone ==
    /\ component = "mibox_socket"
    /\ mbpc = "pairing"
    /\ \E importOk \in BOOLEAN, spawnOk \in BOOLEAN, found \in BOOLEAN, idx \in 0..6 :
         mbSent' = PairDeviceBlocking(importOk, spawnOk, found, idx).sent
    /\ mbpc' = "idle"
    /\ mbIsOnInternal' = IF mbTracked THEN mbIsOnInternal ELSE FALSE
    /\ mbLast' = "none"
    /\ UNCHANGED << cfgVars, fnVars, stVars, mpVars, mbMediaState, mbOffCheck, mbTimers >>

\* async_turn_off: cancel the off-check; call media_player.turn_off on the
\* tracked entity, or without one clear the internal state
MbTurnOff ==
    /\ component = "mibox_socket"
    /\ mbOffCheck' = CancelOffCheck.handle
    /\ mbTimers' = CancelOffCheck.timers
    /\ mbLast' = CancelOffCheck.last
    /\ IF mbTracked
       THEN /\ service_calls' = service_calls \cup { "media_player.turn_off" }
            /\ UNCHANGED mbIsOnInternal
       ELSE /\ mbIsOnInternal' = FALSE
            /\ UNCHANGED service_calls
    /\ UNCHANGED << cfgVars, fnVars, proxy_state, coord_data, update_raised, update_outs, entity, mpVars,
                    mbMediaState, mbpc, mbSent >>

\* the tracked entity changes state: _async_media_state_changed cancels the
\* off-check when the device is on, and schedules one when it is not
MbMediaStateChanged ==
    /\ component = "mibox_socket"
    /\ mbTracked
    /\ \E s \in MediaStates \ { mbMediaState } :
         /\ mbMediaState' = s
         /\ LET did_ == IF s \in { "on", "playing", "active" }
                        THEN CancelOffCheck ELSE ScheduleOffCheck
            IN /\ mbOffCheck' = did_.handle
               /\ mbTimers' = did_.timers
               /\ mbLast' = did_.last
    /\ UNCHANGED << cfgVars, fnVars, stVars, mpVars, mbIsOnInternal, mbpc, mbSent >>

\* an off-check timer fires: _confirm_off clears the handle
MbConfirmOff ==
    /\ component = "mibox_socket"
    /\ mbTimers > 0
    /\ mbTimers' = mbTimers - 1
    /\ mbOffCheck' = FALSE
    /\ mbLast' = "fired"
    /\ UNCHANGED << cfgVars, fnVars, stVars, mpVars, mbMediaState, mbIsOnInternal, mbpc, mbSent >>

Next ==
    \/ SetupEntry
    \/ \E t \in Tasks : TurnOn(t)
    \/ \E t \in Tasks : TurnOff(t)
    \/ \E t \in Tasks : BackendReturns(t)
    \/ \E t \in Tasks : RetryDelayElapsed(t)
    \/ \E t \in Tasks : SettleElapsed(t)
    \/ CoordinatorUpdate
    \/ HandleMediaStateEvent
    \/ MbTurnOn
    \/ MbTurnOff
    \/ MbPairDone
    \/ MbMediaStateChanged
    \/ MbConfirmOff
    \/ AsyncStepUser
    \/ GetConfigEntryDiagnostics
    \/ RunCliInfo
    \/ BleakCall
    \/ BleakAenter
    \/ BleakBlock
    \/ BleakAexit

Spec == Init /\ [][Next]_vars

SpecConc == InitConc /\ [][Next]_vars

\* the event loop resumes a coroutine whose awaited call or sleep is over:
\* every backend call ends (each has a timeout) and every sleep elapses
SpecLive ==
    /\ Spec
    /\ \A t \in Tasks :
         /\ WF_vars(BackendReturns(t))
         /\ WF_vars(RetryDelayElapsed(t))
         /\ WF_vars(SettleElapsed(t))

(***************************************************************************)
(* Properties.                                                             *)
(***************************************************************************)
Last(s) == s[Len(s)]

\* the backend operations the run of task t has invoked so far
InvokedOps(t) == { p[2] : p \in did[t] }

ConnectSites == { "connect", "fb_connect" }

Retryable == { BluetoothCtlTimeoutError, BluetoothCtlNotFoundError }

\* the calls of the operation the _retrying invocation rt[t] has made, the
\* one it awaits included
CallsMade(t) ==
    Len(rt[t].outs) + (IF rt[t].res = "pending" /\ phase[t] = "call" THEN 1 ELSE 0)

\* s is a run of an operation that raises Timeout exactly n times and then
\* succeeds, as far as it has been called
TimeoutsThenSuccess(s, n) ==
    \A i \in 1..Len(s) :
        IF i <= n THEN s[i] = BluetoothCtlTimeoutError ELSE i = n + 1 /\ s[i] \in Values

\* C1: in a wake sequence, once a connect call (primary or fallback) has raised
\* PairingRequested the run is over with result False: that call is the last
\* backend call of the run (connect is not called again, nothing is tried
\* after it) and no disconnect has been invoked.
C1_PairingAbortsWake ==
    \A t \in Tasks :
        /\ (rt[t].site \in ConnectSites
              /\ \E i \in 1..Len(rt[t].outs) : rt[t].outs[i] = BluetoothCtlPairingRequestedError)
             => /\ pc[t] = "done"
                /\ ok[t] = "False"
                /\ Last(rt[t].outs) = BluetoothCtlPairingRequestedError
                /\ \A i \in 1..(Len(rt[t].outs) - 1) :
                       rt[t].outs[i] # BluetoothCtlPairingRequestedError
        /\ \A i \in 1..Len(trail[t]) :
             (trail[t][i][1] \in ConnectSites
                /\ trail[t][i][2] = BluetoothCtlPairingRequestedError)
             => /\ i = Len(trail[t])
                /\ pc[t] = "done"
                /\ ok[t] = "False"
                /\ rt[t].site = trail[t][i][1]
                /\ "disconnect" \notin InvokedOps(t)

C1_Witness ==
    \E t \in Tasks :
        /\ pc[t] = "done"
        /\ trail[t] # << >>
        /\ Last(trail[t])[1] = "connect"
        /\ Last(trail[t])[2] = BluetoothCtlPairingRequestedError
        /\ ok[t] = "False"

PairingCommands == { "pair", "trust", "agent NoInputNoOutput", "default-agent" }

\* the commands the run of task t has had its backends send
CommandsSent(t) == UNION { Commands(p[1], p[2]) : p \in did[t] }

C3_AlreadyConnectedNoOp ==
    \A t \in Tasks :
        (trail[t] # << >> /\ trail[t][1][1] = "info_before" /\ trail[t][1][2] = "True")
        => /\ pc[t] = "done"
           /\ ok[t] = "True"
           /\ Len(trail[t]) = 1
           /\ InvokedOps(t) = { "info" }

C3_Witness ==
    \E t \in Tasks :
        /\ pc[t] = "done"
        /\ Len(trail[t]) = 1
        /\ trail[t][1][1] = "info_before"
        /\ trail[t][1][2] = "True"
        /\ ok[t] = "True"

\* C4: once the sleep command (disconnect or power_off) of a sleep sequence
\* has succeeded, the finished sequence's result is True exactly when the
\* post-check info returned connected = False or None; a post-check that
\* returned True (or raised) gives False.
C4_SleepPostCheck ==
    \A t \in Tasks :
        (pc[t] = "done" /\ trail[t] # << >>
           /\ trail[t][1][1] \in { "power_off", "sleep_disconnect" }
           /\ trail[t][1][2] = "ok")
        => /\ Len(trail[t]) = 2
           /\ trail[t][2][1] = "info_post"
           /\ ok[t] = "True" <=> trail[t][2][2] \in { "False", "None" }
           /\ trail[t][2][2] = "True" => ok[t] = "False"

C4_Witness ==
    \E t \in Tasks :
        /\ pc[t] = "done"
        /\ Len(trail[t]) = 2
        /\ trail[t][1][1] = "sleep_disconnect"
        /\ trail[t][1][2] = "ok"
        /\ trail[t][2][1] = "info_post"
        /\ trail[t][2][2] = "True"
        /\ ok[t] = "False"

\* C5: one _retrying invocation never calls its operation more than
\* retry_count + 1 times, and when every call failed with Timeout or NotFound
\* it has made exactly retry_count + 1 calls and raises the last call's
\* exception, kind unchanged.
C5_RetryBound ==
    \A t \in Tasks :
        /\ CallsMade(t) <= retry_count + 1
        /\ (rt[t].res # "pending" /\ \A i \in 1..Len(rt[t].outs) : rt[t].outs[i] \in Retryable)
           => /\ Len(rt[t].outs) = retry_count + 1
              /\ rt[t].res = Last(rt[t].outs)

C5_Witness ==
    \E t \in Tasks :
        /\ retry_count = MAX_RETRY_COUNT
        /\ rt[t].res = BluetoothCtlTimeoutError
        /\ Len(rt[t].outs) = retry_count + 1
        /\ \A i \in 1..Len(rt[t].outs) : rt[t].outs[i] \in Retryable

\* C6: in one _retrying invocation an exception that is neither Timeout nor
\* NotFound is the invocation's last call and is what the invocation raises:
\* no delay, no further call; PairingRequested on the first call means exactly
\* one call.
C6_FatalNotRetried ==
    \A t \in Tasks :
        \A i \in 1..Len(rt[t].outs) :
            rt[t].outs[i] \in Exceptions \ Retryable
            => /\ i = Len(rt[t].outs)
               /\ rt[t].res = rt[t].outs[i]
               /\ CallsMade(t) = i
               /\ rt[t].delays = i - 1
               /\ trail[t] # << >>
               /\ Last(trail[t]) = << rt[t].site, rt[t].outs[i] >>

C6_Witness ==
    \E t \in Tasks :
        /\ rt[t].outs = << BluetoothCtlPairingRequestedError >>
        /\ rt[t].res = BluetoothCtlPairingRequestedError
        /\ pc[t] = "done"

\* C7: when the k-th call of a _retrying invocation succeeds after k-1 calls
\* failed with Timeout or NotFound, the invocation returns that call's value
\* and has made exactly k calls.
C7_RetryReturnsKth ==
    \A t \in Tasks :
        (rt[t].outs # << >> /\ Last(rt[t].outs) \in Values)
        => /\ rt[t].res = Last(rt[t].outs)
           /\ CallsMade(t) = Len(rt[t].outs)
           /\ Len(rt[t].outs) <= retry_count + 1
           /\ rt[t].attempt = Len(rt[t].outs) - 1
           /\ \A i \in 1..(Len(rt[t].outs) - 1) : rt[t].outs[i] \in Retryable

C7_Witness ==
    \E t \in Tasks :
        /\ Len(rt[t].outs) = 3
        /\ rt[t].outs[1] \in Retryable
        /\ rt[t].outs[2] \in Retryable
        /\ rt[t].outs[3] \in Values
        /\ rt[t].res = rt[t].outs[3]

\* C8 as stated: with retry_count = 2, a finished _retrying invocation whose
\* operation raises Timeout three times and then succeeds has returned
\* success after exactly 3 calls.
C8_ThreeTimeoutsThenSuccess ==
    \A t \in Tasks :
        (retry_count = 2 /\ rt[t].res # "pending" /\ rt[t].outs # << >>
           /\ TimeoutsThenSuccess(rt[t].outs, 3))
        => (rt[t].res \in Values /\ Len(rt[t].outs) = 3)

\* C8 (as amended): with retry_count = 2, a finished _retrying invocation
\* whose operation raises Timeout twice and then succeeds has returned that
\* success after exactly 3 calls; one whose operation raises Timeout three
\* times has raised Timeout after exactly 3 calls.
C8_TwoTimeoutsThenSuccess ==
    \A t \in Tasks :
        (retry_count = 2 /\ rt[t].res # "pending" /\ rt[t].outs # << >>)
        => /\ TimeoutsThenSuccess(rt[t].outs, 2)
              => /\ Len(rt[t].outs) = 3
                 /\ rt[t].res = rt[t].outs[3]
                 /\ rt[t].res \in Values
           /\ TimeoutsThenSuccess(rt[t].outs, 3)
              => /\ Len(rt[t].outs) = 3
                 /\ rt[t].res = BluetoothCtlTimeoutError

C8_Witness ==
    \E t \in Tasks :
        /\ retry_count = 2
        /\ rt[t].outs = << BluetoothCtlTimeoutError, BluetoothCtlTimeoutError, "ok" >>
        /\ rt[t].res = "ok"

\* C9: whatever a backend call raises at any step, the wake or sleep sequence
\* returns True or False and async_turn_on / async_turn_off complete: no
\* exception escapes the handler.
C9_NoExceptionEscapes ==
    \A t \in Tasks :
        /\ pc[t] # "raised"
        /\ pc[t] = "done" => ok[t] \in { "True", "False" }
        /\ (pc[t] = "done" /\ trail[t] # << >> /\ Last(trail[t])[2] \in Exceptions)
           => ok[t] = "False"

C9_Witness ==
    \E t \in Tasks :
        /\ pc[t] = "done"
        /\ Last(trail[t])[1] = "info_before"
        /\ Last(trail[t])[2] = NameError
        /\ ok[t] = "False"

\* C10 as stated: when async_turn_on / async_turn_off has completed with a
\* failed sequence, the switch is still available.
C10_FailedStaysAvailable ==
    \A t \in Tasks :
        (pc[t] = "done" /\ ok[t] = "False") => available = TRUE

\* the wake sequence of task t has been launched and its first backend call
\* is still unanswered
WakeLaunched(t) ==
    /\ pc[t] = "info_before"
    /\ phase[t] = "call"
    /\ rt[t] = NewRetry("info_before")
    /\ trail[t] = << >>

\* C11 as stated: of the turn_on commands received back to back (no awaited
\* step has completed between them, so no time need have passed and they are
\* within any debounce window) only one has launched a wake sequence: the
\* later command made no backend call.
C11_DebouncedTurnOn ==
    burst >= 2 => Cardinality({ t \in Tasks : WakeLaunched(t) }) <= 1

\* C12 as stated: at most one wake / sleep sequence of the switch is in
\* progress at any time.
C12_OneSequenceAtATime ==
    Cardinality(InFlight) <= 1

\* C13 as stated: from the moment turn_on (turn_off) is received, while its
\* wake (sleep) sequence has not produced an outcome, the displayed state is
\* on (off).
C13_OptimisticUpdate ==
    \A t \in Tasks :
        /\ pc[t] \in WakeSites \cup { "settle" } => IsOn = "True"
        /\ pc[t] \in SleepSites => IsOn = "False"

\* C14 as stated: once turn_on / turn_off has completed with a failed
\* sequence, the entity shows an on/off value again (the one before the
\* command) and exposes last_error.
C14_FailureRevertsAndRecords ==
    \A t \in Tasks :
        (pc[t] = "done" /\ ok[t] = "False")
        => /\ available = TRUE
           /\ "last_error" \in ExtraStateAttributes

\* C15: is_on of the entity is the coordinator's connected value when
\* polling is enabled (the cached value when that is unknown, never the
\* proxy's state); with polling disabled it is the mapped state of the proxy
\* entity when one is configured and has a state; otherwise it is the cached
\* value.
C15_StateSourcePrecedence ==
    entity = "added" =>
    IsOn = IF polling_enabled
           THEN (IF coord_data \in { "True", "False" } THEN coord_data ELSE is_on_cached)
           ELSE IF media_player_entity_id # "None" /\ proxy_state # "missing"
           THEN MapMediaStateToOn(proxy_state)
           ELSE is_on_cached

C15_Witness ==
    /\ polling_enabled
    /\ update_raised = "UpdateFailed"
    /\ coord_data = "False"
    /\ media_player_entity_id # "None"
    /\ proxy_state = "playing"
    /\ InFlight = {}
    /\ IsOn = "False"

\* C16 (as amended): in the mipower switch a proxy state string maps to on
\* exactly when it is "on", "playing" or "idle", and with polling disabled
\* that is the is_on the switch shows for a proxy that has a state.
C16_MiPowerProxyMapping ==
    /\ \A st \in MediaStates :
         MapMediaStateToOn(st) = "True" <=> st \in { "on", "playing", "idle" }
    /\ (component = "mipower" /\ ~polling_enabled
          /\ media_player_entity_id # "None" /\ proxy_state # "missing")
       => /\ IsOn \in { "True", "False" }
          /\ IsOn = "True" <=> proxy_state \in { "on", "playing", "idle" }

\* a turn_off has succeeded (the cached value went to False) and the proxy
\* has since gone to "idle": the switch shows on
C16_Witness ==
    \E t \in Tasks :
        /\ component = "mipower"
        /\ ~polling_enabled
        /\ media_player_entity_id # "None"
        /\ pc[t] = "done"
        /\ trail[t] # << >>
        /\ trail[t][1][1] \in SleepSites
        /\ ok[t] = "True"
        /\ proxy_state = "idle"
        /\ is_on_cached = "True"
        /\ IsOn = "True"

\* C16 as stated: in both switches a companion state string maps to on
\* exactly when it is "on", "playing" or "idle".
C16_ProxyMappingEverywhere ==
    /\ \A st \in MediaStates :
         MapMediaStateToOn(st) = "True" <=> st \in { "on", "playing", "idle" }
    /\ (component = "mibox_socket" /\ mbTracked /\ mbMediaState # "missing")
       => (DeviceIsOn <=> mbMediaState \in { "on", "playing", "idle" })

\* C17 (as amended): the mipower switch calls no service, in particular none
\* on the proxy entity, and the proxy's state changes only by the entity's
\* own state-change events, never by a step of turn_on or turn_off.
C17_MiPowerNeverWritesProxy ==
    /\ [](component = "mipower" => service_calls = {})
    /\ [][proxy_state' # proxy_state => HandleMediaStateEvent]_vars

C17_Witness ==
    \E t \in Tasks :
        /\ component = "mipower"
        /\ media_player_entity_id # "None"
        /\ proxy_state = "on"
        /\ pc[t] = "done"
        /\ trail[t] # << >>
        /\ trail[t][1][1] \in SleepSites
        /\ ok[t] = "True"
        /\ service_calls = {}

\* C17 as stated: no switch of the system ever calls a service on the
\* companion entity.
C17_NoServiceCallAnywhere ==
    service_calls = {}

\* C18 as stated: after a wake that succeeded while its reachability check
\* (the info after the disconnect) found the device not connected, the
\* displayed state goes to off and an attempt record with reason
\* "unreachable_after_wake" is in the log.
C18_UnreachableAfterWake ==
    (\E t \in Tasks :
        /\ pc[t] = "done"
        /\ ok[t] = "True"
        /\ trail[t] # << >>
        /\ Last(trail[t])[1] = "info_after"
        /\ Last(trail[t])[2] \in { "False", "None" })
    ~> (/\ IsOn = "False"
        /\ \E i \in 1..Len(LastAttempts) : LastAttempts[i] = "unreachable_after_wake")

\* C19 as stated: once an attempt has completed the attempt log holds a
\* record of it, and the log never holds more than 20 records.
C19_AttemptLog ==
    /\ Len(LastAttempts) <= 20
    /\ (\E t \in Tasks : pc[t] = "done") => Len(LastAttempts) >= 1

\* C20: whatever client.info raises, _async_update_data raises UpdateFailed
\* and nothing else; a refresh that failed leaves the coordinator's data as
\* it was, data is always there while the entity exists and polling is
\* enabled, and the next refresh can run.
C20_FetchFailureIsUpdateFailed ==
    /\ [](/\ update_raised \in { "none", "UpdateFailed" }
          /\ \A o \in Exceptions : UpdateData(o).raised = "UpdateFailed"
          /\ (polling_enabled /\ entity = "added")
             => (coord_data \in InfoValues /\ ENABLED CoordinatorUpdate))
    /\ [][update_raised' # "none" => coord_data' = coord_data]_vars

C20_Witness ==
    /\ polling_enabled
    /\ update_raised = "UpdateFailed"
    /\ coord_data = "True"

\* C21 as stated: the polling fetch calls info through the retry policy: a
\* fetch reported failed after Timeout or NotFound failures has called info
\* retry_count + 1 times.
C21_FetchRetries ==
    (/\ polling_enabled
     /\ update_raised = "UpdateFailed"
     /\ update_outs # << >>
     /\ \A i \in 1..Len(update_outs) : update_outs[i] \in Retryable)
    => Len(update_outs) = retry_count + 1

\* C22: with polling enabled, as long as no fetch has returned the setup of
\* the switch is blocked: the entity is not created (no command runs) and
\* the platform is not ready; an entity that exists with polling has data.
C22_FirstFetchFailureBlocksSetup ==
    /\ (polling_enabled /\ coord_data = "NoData" /\ update_outs # << >>)
       => (/\ entity = "not_ready"
           /\ update_raised = "UpdateFailed"
           /\ \A t \in Tasks : pc[t] = "idle" /\ did[t] = {})
    /\ entity = "not_ready" => (polling_enabled /\ coord_data = "NoData")
    /\ entity # "added" => \A t \in Tasks : ~ENABLED TurnOn(t) /\ ~ENABLED TurnOff(t)

C22_Witness ==
    /\ polling_enabled
    /\ entity = "not_ready"
    /\ update_outs = << BluetoothCtlTimeoutError >>

\* C23: client_factory never fails: it returns the bleak backend when the
\* library is there and the CLI backend when constructing BleakClient raises
\* BluetoothCtlError; every sequence calls the backend it returns, but for
\* the CLI connect of the wake fallback and the disconnect that follows it.
C23_ClientFactoryNeverFails ==
    /\ ClientFactory \in Backends
    /\ ClientFactory = (IF hasBleak THEN "bleak" ELSE "cli")
    /\ \A t \in Tasks : \A d \in did[t] :
         \/ d[1] = ClientFactory
         \/ d = << "cli", "connect" >>
         \/ d = << "cli", "disconnect" >> /\ << "cli", "connect" >> \in did[t]

C23_Witness ==
    /\ ~hasBleak
    /\ BleakClientInit = BluetoothCtlError
    /\ \E t \in Tasks : pc[t] = "done" /\ << "cli", "info" >> \in did[t]

\* C24 as stated: a connect of the bleak backend that meets a pairing
\* request fails with PairingRequested; the CLI fallback is not tried and
\* the wake sequence ends in failure.
C24_BleakPairingAborts ==
    \A t \in Tasks :
        (/\ << "bleak", "connect" >> \in did[t]
         /\ \E i \in 1..Len(trail[t]) :
              trail[t][i] = << "connect", BleakConnect("pairing") >>)
        => (/\ BleakConnect("pairing") = BluetoothCtlPairingRequestedError
            /\ << "cli", "connect" >> \notin did[t]
            /\ pc[t] = "done" /\ ok[t] = "False")

\* C25: the masked_mac the diagnostics export shows the first four octets
\* of the stored address and "**" for the last two; every stored address is
\* six octets, so none is exported unmasked.
C25_DiagnosticsMasksAddress ==
    /\ entry_mac # << >> => IsValidMac(entry_mac)
    /\ masked_mac # << >> =>
         /\ Len(masked_mac) = 6
         /\ SubSeq(masked_mac, 1, 4) = SubSeq(entry_mac, 1, 4)
         /\ masked_mac[5] = "**" /\ masked_mac[6] = "**"
         /\ masked_mac[5] # entry_mac[5] /\ masked_mac[6] # entry_mac[6]

C25_Witness ==
    /\ entry_mac = << "E0", "B6", "55", "12", "9A", "3C" >>
    /\ masked_mac = << "E0", "B6", "55", "12", "**", "**" >>

\* C26 as stated: with the sleep command power_off, the power_off call made
\* without an address is accepted by the backend selected (it can return),
\* and once it returned the sequence goes on to the post-check info.
C26_PowerOffWithoutAddress ==
    \A t \in Tasks :
        /\ pc[t] = "power_off" => "ok" \in Outcomes(client[t], "power_off")
        /\ (trail[t] # << >> /\ trail[t][1] = << "power_off", "ok" >>)
           => << ClientFactory, "info" >> \in did[t]

\* the lines of the last response
ResponseLines == { response[k] : k \in 1..Len(response) }

\* what a field of the response says: True for its yes line, False for its
\* no line, unknown (None) without one
Listed(field) ==
    IF FieldLine(field, "yes") \in ResponseLines THEN "True"
    ELSE IF FieldLine(field, "no") \in ResponseLines THEN "False"
    ELSE "None"

\* C27 as stated: on a response with no pairing prompt and no not-available
\* message info returns the device's fields, not an error, and connected,
\* paired and trusted are each what the response's yes / no line says.
C27_CliInfoParsesFields ==
    (/\ response \in Responses
     /\ PromptLine \notin ResponseLines
     /\ NotAvailableLine \notin ResponseLines)
    => (/\ bt_info.raised = "none"
        /\ bt_info.info.connected = Listed("Connected")
        /\ bt_info.info.paired = Listed("Paired")
        /\ bt_info.info.trusted = Listed("Trusted"))

\* C28 as stated: a CLI call whose process does not finish within the
\* timeout kills the process and fails with BluetoothCtlTimeoutError, which
\* _retrying retries.
C28_CliTimeoutIsTimeoutError ==
    \A t \in Tasks : \A i \in 1..Len(rt[t].outs) :
        (~hasBleak /\ rt[t].outs[i] = CliRun("times out").raised)
        => (/\ CliRun("times out").killed
            /\ rt[t].outs[i] = BluetoothCtlTimeoutError
            /\ rt[t].outs[i] \in Retryable)

\* the place of a step in the wake sequence
WakeRank(site) ==
    CASE site = "info_before" -> 1
      [] site = "connect" -> 2
      [] site = "fb_connect" -> 3
      [] site = "settle" -> 4
      [] site = "disconnect" -> 5
      [] site = "info_after" -> 6
      [] OTHER -> 0

\* the steps of the wake sequence task t has finished
WakeDone(t) == { trail[t][i][1] : i \in 1..Len(trail[t]) }

\* the steps of the wake sequence task t has started, the one it is in included
WakeStarted(t) ==
    WakeDone(t) \cup (IF pc[t] \in WakeSites \cup { "settle" } THEN { pc[t] } ELSE {})

\* C29: a wake sequence makes its calls in the order info, connect, (fallback
\* connect,) settle delay, disconnect, info; a step starts only when every
\* step before it is finished; disconnect is called only after a connect
\* succeeded in the same run, the verifying info only after the disconnect.
C29_WakeOrder ==
    \A t \in Tasks :
        (pc[t] \in WakeSites \cup { "settle" }
         \/ (trail[t] # << >> /\ trail[t][1][1] = "info_before"))
        => (/\ \A i, j \in 1..Len(trail[t]) :
                 i < j => WakeRank(trail[t][i][1]) < WakeRank(trail[t][j][1])
            /\ pc[t] \in WakeSites \cup { "settle" } =>
                 \A s \in WakeDone(t) : WakeRank(s) < WakeRank(pc[t])
            /\ (WakeStarted(t) \ { "info_before" } # {}) =>
                 trail[t][1][1] = "info_before" /\ trail[t][1][2] # "True"
            /\ "fb_connect" \in WakeStarted(t) => "connect" \in WakeDone(t)
            /\ ({ "settle", "disconnect" } \cap WakeStarted(t) # {}) =>
                 \E i \in 1..Len(trail[t]) :
                     trail[t][i] \in { << "connect", "ok" >>, << "fb_connect", "ok" >> }
            /\ "info_after" \in WakeStarted(t) => "disconnect" \in WakeDone(t))

C29_Witness ==
    \E t \in Tasks :
        /\ pc[t] = "done"
        /\ Len(trail[t]) = 5
        /\ trail[t][2] = << "connect", BluetoothCtlError >>
        /\ trail[t][3] = << "fb_connect", "ok" >>
        /\ trail[t][4][1] = "disconnect"
        /\ trail[t][5][1] = "info_after"

\* C30: a wake sequence that came to its verifying info succeeds exactly
\* when that info returned, whatever connected value it returned (true,
\* false or unknown), and fails exactly when it raised.
C30_VerifyingInfoDecides ==
    \A t \in Tasks :
        (pc[t] = "done" /\ trail[t] # << >> /\ Last(trail[t])[1] = "info_after")
        => (/\ Last(trail[t])[2] \in InfoValues => ok[t] = "True"
            /\ Last(trail[t])[2] \in Exceptions => ok[t] = "False"
            /\ Last(trail[t])[2] \in InfoValues \cup Exceptions)

C30_Witness ==
    \E t \in Tasks :
        /\ pc[t] = "done"
        /\ trail[t] # << >>
        /\ Last(trail[t]) = << "info_after", "False" >>
        /\ ok[t] = "True"

SleepCommands(t) == InvokedOps(t) \cap { "disconnect", "power_off" }

\* C32: a sleep sequence issues the one sleep command the configuration
\* names; when that command raises PairingRequested the sequence is over:
\* the command is not called again, the post-check info is not called, and
\* the result is failure.
C32_SleepPairingAborts ==
    \A t \in Tasks :
        (pc[t] \in SleepSites
         \/ (trail[t] # << >> /\ trail[t][1][1] \in SleepSites))
        => (/\ SleepCommands(t) =
                 { IF sleep_cmd_type = SLEEP_CMD_POWER_OFF THEN "power_off" ELSE "disconnect" }
            /\ (trail[t] # << >> /\ trail[t][1][2] = BluetoothCtlPairingRequestedError)
               => (/\ pc[t] = "done" /\ ok[t] = "False"
                   /\ Len(trail[t]) = 1
                   /\ "info" \notin InvokedOps(t)
                   /\ Last(rt[t].outs) = BluetoothCtlPairingRequestedError
                   /\ \A i \in 1..(Len(rt[t].outs) - 1) :
                        rt[t].outs[i] # BluetoothCtlPairingRequestedError))

C32_Witness ==
    \E t \in Tasks :
        /\ sleep_cmd_type = SLEEP_CMD_DISCONNECT
        /\ pc[t] = "done"
        /\ trail[t] = << << "sleep_disconnect", BluetoothCtlPairingRequestedError >> >>
        /\ ok[t] = "False"

\* C33: a _retrying invocation waits its delay only between two calls: one
\* that is over has waited one delay less than it made calls, one that is
\* in a call has waited as many delays as calls came back, and a delay is
\* only ever waited by an invocation that goes on to call again.
C33_DelayOnlyBetweenAttempts ==
    \A t \in Tasks :
        /\ (rt[t].res # "pending" /\ rt[t].outs # << >>)
           => rt[t].delays = Len(rt[t].outs) - 1
        /\ (rt[t].res = "pending" /\ pc[t] \in Sites /\ phase[t] = "call")
           => rt[t].delays = Len(rt[t].outs)
        /\ (pc[t] \in Sites /\ phase[t] = "delay")
           => (/\ rt[t].res = "pending"
               /\ rt[t].delays = Len(rt[t].outs) - 1
               /\ Len(rt[t].outs) <= retry_count)

C33_Witness ==
    \E t \in Tasks :
        /\ rt[t].res = BluetoothCtlNotFoundError
        /\ Len(rt[t].outs) = 3
        /\ rt[t].delays = 2

\* C34 as stated: while a sequence is in flight and until it completes, no
\* step changes the cached on/off value or the available flag.
C34_InFlightSequenceOnlyWriter ==
    [][(InFlight # {} /\ InFlight \subseteq InFlight')
       => (is_on_cached' = is_on_cached /\ available' = available)]_vars

\* the hint classes of the lines of the last response
ResponseClasses ==
    { h.class : h \in { h \in HintLines : h.text \in ResponseLines } }

\* C35: an output that holds a pairing hint raises PairingRequested, with a
\* not-found hint beside it or not; one with a not-found hint and no pairing
\* hint raises NotFound; one with neither raises nothing; whatever the case
\* of the letters, the place of the hint in its line and the order of the
\* lines.
C35_ClassificationPriority ==
    response \in HintResponses =>
        bt_info.raised =
            IF "pairing" \in ResponseClasses THEN BluetoothCtlPairingRequestedError
            ELSE IF "not_found" \in ResponseClasses THEN BluetoothCtlNotFoundError
            ELSE "none"

C35_Witness ==
    /\ response = << "No Such Device", "PASSKEY required" >>
    /\ bt_info.raised = BluetoothCtlPairingRequestedError

\* C36 as stated: an output that holds a timeout hint and no pairing or
\* not-found hint makes the call fail with BluetoothCtlTimeoutError.
C36_TimeoutHintRaisesTimeout ==
    (/\ response \in HintResponses
     /\ \E k \in 1..Len(response) : \E n \in TIMEOUT_HINTS : Contains(Lower(response[k]), n)
     /\ "pairing" \notin ResponseClasses
     /\ "not_found" \notin ResponseClasses)
    => bt_info.raised = BluetoothCtlTimeoutError

\* C37: a handle of the bleak backend is open only while an operation is in
\* the block under it or leaving it; whichever way the block ended
\* (returned, raised, cancelled by the timeout), and for every operation, no
\* handle is open once the operation is over.
C37_BleakHandleReleased ==
    /\ handles = (IF bk.at \in { "block", "aexit" } THEN 1 ELSE 0)
    /\ bk.at = "idle" => handles = 0

C37_Witness ==
    /\ bk.op = "connect"
    /\ bk.at = "idle"
    /\ bk.attempt = BLEAK_CONNECT_RETRIES
    /\ bk.ended = "cancelled"
    /\ bk.opened = BLEAK_CONNECT_RETRIES
    /\ handles = 0

\* a step that is a user command of the mibox_socket switch, or the tracked
\* entity turning on
MbSupersedes ==
    \/ MbTurnOn
    \/ MbTurnOff
    \/ MbMediaStateChanged /\ mbMediaState' \in { "on", "playing", "active" }

\* C38: at most one off-check timer is pending, it is the one the handle
\* holds, and after a user turn_on or turn_off or the tracked entity turning
\* on no timer scheduled before is left to fire.
C38_OffCheckSuperseded ==
    /\ [](mbTimers <= 1 /\ (mbOffCheck <=> mbTimers = 1))
    /\ [][MbSupersedes => (mbTimers' = 0 /\ ~mbOffCheck')]_vars

C38_Witness ==
    /\ mbLast = "cancelled"
    /\ mbTimers = 0
    /\ "media_player.turn_off" \in service_calls

\* C39: a sequence goes through at most the five call sites of a wake, each
\* site calls the backend at most retry_count + 1 times, and, every backend
\* call returning or raising and every sleep elapsing, a turn_on or turn_off
\* in flight ends with the result True or False.
C39_CommandsTerminate ==
    /\ [](\A t \in Tasks :
            /\ Len(trail[t]) <= Cardinality(WakeSites)
            /\ CallsMade(t) <= retry_count + 1)
    /\ (InFlight # {})
         ~> (/\ InFlight = {}
             /\ \E t \in Tasks : pc[t] = "done" /\ ok[t] \in { "True", "False" })

C39_Witness ==
    \E t \in Tasks :
        /\ pc[t] = "done"
        /\ ok[t] \in { "True", "False" }
        /\ Len(trail[t]) = Cardinality(WakeSites)
        /\ retry_count = MAX_RETRY_COUNT
        /\ Len(rt[t].outs) = retry_count + 1

\* the _retrying invocations of site s that task t's run has started
InvocationsOf(t, s) ==
    Cardinality({ i \in 1..Len(trail[t]) : trail[t][i][1] = s })
    + (IF pc[t] = s THEN 1 ELSE 0)

\* C40: in a wake sequence the fallback connect is started only right after
\* the primary connect raised a BluetoothCtlError that is not a pairing
\* request (a Timeout or NotFound only when the retries are used up); the
\* primary and the fallback connect are each invoked at most once, and an
\* invocation calls connect at most retry_count + 1 times, which makes at
\* most 2 * (retry_count + 1) connect calls in the run.
C40_FallbackAfterConnectFailure ==
    \A t \in Tasks :
        /\ InvocationsOf(t, "fb_connect") >= 1
           => (/\ Len(trail[t]) >= 2
               /\ trail[t][2][1] = "connect"
               /\ IsInstance(trail[t][2][2], BluetoothCtlError)
               /\ ~IsInstance(trail[t][2][2], BluetoothCtlPairingRequestedError)
               /\ (Len(trail[t]) >= 3 => trail[t][3][1] = "fb_connect"))
        /\ (pc[t] = "fb_connect" /\ rt[t].site = "connect" /\ rt[t].res \in Retryable)
           => Len(rt[t].outs) = retry_count + 1
        /\ \A s \in ConnectSites : InvocationsOf(t, s) <= 1
        /\ rt[t].site \in ConnectSites => CallsMade(t) <= retry_count + 1

C40_Witness ==
    \E t \in Tasks :
        /\ retry_count = MAX_RETRY_COUNT
        /\ pc[t] = "fb_connect"
        /\ rt[t].site = "fb_connect"
        /\ Len(trail[t]) = 2
        /\ trail[t][2] = << "connect", BluetoothCtlNotFoundError >>
        /\ CallsMade(t) = retry_count + 1

====
